---- MODULE Spec2Model ----
(***************************************************************************)
(* Model of get_race_results.py: the payout extractor (get_race_result),   *)
(* the venue lister (get_race_list_for_date), the race enumerator          *)
(* (get_races_for_place) and the collection driver (main).                 *)
(*                                                                         *)
(* A text is a sequence of tokens.  A token is one character where the     *)
(* code looks inside the text (the payout amount, the race link text) and  *)
(* a whole word where it only compares or searches it (a bet-type label,   *)
(* a combination, a part of a URL).  The Japanese bet-type labels are      *)
(* written in romaji, since a module is ASCII: tansho = single-win,        *)
(* fukusho = place, nirentan = exacta, nirenpuku = quinella,               *)
(* sanrentan = trifecta, sanrenpuku = trio, kakurenpuku = quinella-place.  *)
(* "Y" stands for the yen sign, "ninki" for the popularity column.         *)
(***************************************************************************)
EXTENDS Integers, Sequences, FiniteSets, TLC

VARIABLES
  pc,              \* position in main, or in a function run on its own
  places,          \* main: the venues returned by get_race_list_for_date
  pi,              \* main: index of the venue of the current `for place`
  nums,            \* main: the race numbers of the current venue
  ri,              \* main: index of the race of the current `for rn`
  skip_remaining,  \* main: the abort flag (line 115); the local is unbound
                   \* before its first assignment, which FALSE stands for
  res,             \* main: the last value returned by get_race_result
  all_results,     \* main: the accumulation list
  output_file,     \* the file race_results_<date>.json: Absent, or its content
  net,             \* the last HTTP exchange: which endpoint, how it ended
  outcomes,        \* history: per race of the current venue, what main did
  n_extract,       \* history: calls of get_race_result
  n_sleep,         \* history: calls of time.sleep(1)
  n_write,         \* history: times the output file was opened for writing
  exc_seen,        \* history: some get_race_result call caught an exception
  aborted,         \* history: the venues (indices) whose abort flag was set
  arg,             \* the input of a function run on its own
  ret              \* its return value

vars == <<pc, places, pi, nums, ri, skip_remaining, res, all_results,
          output_file, net, outcomes, n_extract, n_sleep, n_write, exc_seen,
          aborted, arg, ret>>

-----------------------------------------------------------------------------
(* Bounds of the model *)

MaxLen == 3        \* characters of an enumerated payout cell
MaxRows == 3       \* rows of an enumerated payout section
MaxTbodies == 2    \* tbody elements of an enumerated race-index page
MaxVenues == 2     \* venues of a run of main
MaxRaces == 2      \* races of a venue in a run of main

-----------------------------------------------------------------------------
(* Python values *)

None == [py |-> "None"]
\* a Python list (a value of another shape than None cannot be compared with it)
PyList(items) == [py |-> "list", items |-> items]
\* an exception leaving a function instead of a value
Raised == [py |-> "raise"]
Absent == [file |-> "absent"]

\* the responses of requests.get + raise_for_status
Failures == {"timeout", "connection_error", "http_error"}
Ok == "ok"

RECURSIVE SeqsUpTo(_, _)
\* all sequences over S of length at most n
SeqsUpTo(S, n) ==
  IF n = 0 THEN {<<>>}
  ELSE LET shorter == SeqsUpTo(S, n - 1)
       IN shorter \cup {Append(s, x) : s \in shorter, x \in S}

-----------------------------------------------------------------------------
(* get_race_result: lines 22-59 *)

RECURSIVE StripCommas_FirstOnly(_)
\* variant of StripCommas: replace(",", "", 1), only the first comma goes
StripCommas_FirstOnly(s) ==
  IF s = <<>> THEN <<>>
  ELSE IF Head(s) = "," THEN Tail(s)
  ELSE <<Head(s)>> \o StripCommas_FirstOnly(Tail(s))

RECURSIVE StripCommas(_)
\* line 49: cols[2].replace(",", "")
StripCommas(s) ==
  IF s = <<>> THEN <<>>
  ELSE IF Head(s) = "," THEN StripCommas(Tail(s))
  ELSE <<Head(s)>> \o StripCommas(Tail(s))

\* line 50: the literal list of bet types
RecognizedBetTypes ==
  {<<"tansho">>, <<"fukusho">>, <<"nirentan">>, <<"nirenpuku">>,
   <<"sanrentan">>, <<"sanrenpuku">>, <<"kakurenpuku">>}

\* variant of IsRecognized: the membership test dropped
IsRecognized_Any(bet_type) == TRUE

\* line 50: bet_type in [...]
IsRecognized(bet_type) == bet_type \in RecognizedBetTypes

\* line 37: the regular expression of the fallback search
MarkerBetTypes == {"tansho", "fukusho", "nirentan", "sanrenpuku"}

\* line 47: len(cols) < 3
MinCols == 3

\* lines 51-53: result["payouts"].setdefault(bet_type, []).append(entry)
SetDefaultAppend(payouts, bet_type, entry) ==
  IF bet_type \in DOMAIN payouts
  THEN [payouts EXCEPT ![bet_type] = Append(@, entry)]
  ELSE [k \in DOMAIN payouts \cup {bet_type} |->
          IF k = bet_type THEN <<entry>> ELSE payouts[k]]

\* lines 46-53: the body of `for row in section.find_all("tr")` for one row;
\* cols are the stripped texts of the row's td cells
ProcessRow(payouts, cols) ==
  IF Len(cols) < MinCols THEN payouts
  ELSE LET bet_type == cols[1]
           combo == cols[2]
           payout == StripCommas(cols[3])
       IN IF IsRecognized(bet_type)
          THEN SetDefaultAppend(payouts, bet_type,
                                [combination |-> combo, payout |-> payout])
          ELSE payouts

RECURSIVE ProcessRows(_, _)
\* lines 45-53: the loop over the rows, in document order
ProcessRows(payouts, rows) ==
  IF rows = <<>> THEN payouts
  ELSE ProcessRows(ProcessRow(payouts, Head(rows)), Tail(rows))

\* line 37: re.search(markers, div.get_text()): the div's text holds a marker,
\* in one of its td cells or elsewhere (a th, a caption)
HasMarker(div) ==
  \/ div.marker_text
  \/ \E i \in 1..Len(div.rows) : \E j \in 1..Len(div.rows[i]) :
       \E k \in 1..Len(div.rows[i][j]) : div.rows[i][j][k] \in MarkerBetTypes

RECURSIVE FirstWithMarker(_)
\* lines 36-39: the first div.table1 whose text holds a marker, else None
FirstWithMarker(divs) ==
  IF divs = <<>> THEN None
  ELSE IF HasMarker(Head(divs)) THEN Head(divs)
  ELSE FirstWithMarker(Tail(divs))

\* lines 33-39: the payout section of a page
FindSection(page) ==
  IF page.is_payout # None THEN page.is_payout
  ELSE FirstWithMarker(page.table1)

\* variant of ReturnResult: `return result`
ReturnResult_Always(race_num, payouts) ==
  [race_num |-> race_num, payouts |-> payouts]

\* line 55: return result if result["payouts"] else None
ReturnResult(race_num, payouts) ==
  IF DOMAIN payouts # {}
  THEN [race_num |-> race_num, payouts |-> payouts]
  ELSE None

\* variant of OnException: the exception is not caught
OnException_Propagate == Raised

\* lines 57-59: except Exception: print, return None
OnException == None

\* lines 22-59.  response is how the request and the parse went: Ok, a transport
\* failure raised by lines 25-26, or "parse_error", an exception raised by
\* lines 27-55
get_race_result(race_num, response, page) ==
  IF response # Ok THEN OnException
  ELSE LET section == FindSection(page)
       IN IF section = None THEN None
          ELSE ReturnResult(race_num, ProcessRows(<<>>, section.rows))

-----------------------------------------------------------------------------
(* get_race_list_for_date: lines 65-78, and get_races_for_place: lines 81-87 *)

RECURSIVE Split(_, _)
\* str.split(sep) on a text given as a sequence of tokens, sep one of them:
\* always at least one part
Split(s, sep) ==
  IF s = <<>> THEN << <<>> >>
  ELSE LET rest == Split(Tail(s), sep)
       IN IF Head(s) = sep THEN << <<>> >> \o rest
          ELSE << <<Head(s)>> \o Head(rest) >> \o Tail(rest)

\* line 74: href=lambda h: h and "raceindex" in h
IsRaceIndexLink(a) ==
  /\ a.href # None
  /\ \E i \in 1..Len(a.href.text) : a.href.text[i] = "raceindex"

RECURSIVE FindLink(_)
\* line 74: tbody.find("a", href=...): the first matching link, else None
FindLink(links) ==
  IF links = <<>> THEN None
  ELSE IF IsRaceIndexLink(Head(links)) THEN Head(links)
  ELSE FindLink(Tail(links))

\* line 77: img.get("alt", "")
GetAlt(img) == IF "alt" \in DOMAIN img.attrs THEN img.attrs["alt"] ELSE ""

\* lines 73-77: the body of the loop for one tbody: the places list after it, or
\* Raised when line 76 raises IndexError
ProcessTbody(date_str, races, tbody) ==
  LET img == tbody.img
      a == FindLink(tbody.links)
  IN IF img # None /\ a # None
     THEN LET parts == Split(a.href.text, "jcd=")
          IN IF Len(parts) < 2 THEN Raised
             ELSE LET code == Split(parts[2], "&")[1]
                  IN PyList(Append(races.items,
                                   [date |-> date_str, place_code |-> code,
                                    place_name |-> GetAlt(img)]))
     ELSE races

RECURSIVE ProcessTbodies(_, _, _)
\* lines 72-77: the loop over the tbody elements, in document order
ProcessTbodies(date_str, races, tbodies) ==
  IF tbodies = <<>> THEN races
  ELSE LET next == ProcessTbody(date_str, races, Head(tbodies))
       IN IF next = Raised THEN Raised
          ELSE ProcessTbodies(date_str, next, Tail(tbodies))

\* lines 65-78: a PyList of places, or Raised
get_race_list_for_date(date_str, response, page) ==
  IF response # Ok THEN Raised
  ELSE ProcessTbodies(date_str, PyList(<<>>), page)

RECURSIVE RemoveR(_)
\* line 87: .replace("R", "")
RemoveR(s) ==
  IF s = <<>> THEN <<>>
  ELSE IF Head(s) = "R" THEN RemoveR(Tail(s))
  ELSE <<Head(s)>> \o RemoveR(Tail(s))

\* variant of get_races_for_place: the failure is swallowed, no race is listed
get_races_for_place_NoRaise(response, page) ==
  IF response # Ok THEN PyList(<<>>)
  ELSE PyList([i \in 1..Len(page) |-> RemoveR(page[i])])

\* lines 81-87: page is the texts of the links div.table1 td.is-fBold a, in
\* document order; a PyList of race numbers, or Raised
get_races_for_place(response, page) ==
  IF response # Ok THEN Raised
  ELSE PyList([i \in 1..Len(page) |-> RemoveR(page[i])])

-----------------------------------------------------------------------------
(* The inputs of main: what the three endpoints may answer *)

TargetDate == "20250805"
One == <<"1">>

\* a table row of the race index that carries an image and a raceindex link
VenueTbody(code, name) ==
  [img |-> [attrs |-> [alt |-> name]],
   links |-> << [href |-> [text |-> <<"raceindex", "?", "jcd=", code, "&", "hd=">>]] >>]

\* a table row whose raceindex link has no jcd parameter
NoCodeTbody ==
  [img |-> [attrs |-> [alt |-> "Toda"]],
   links |-> << [href |-> [text |-> <<"raceindex", "?", "hd=">>]] >>]

VenueCodes == <<"02", "04", "12", "24">>
VenueNames == <<"Toda", "Heiwajima", "Suminoe", "Omura">>

\* the race-index pages of a run of main: 0..MaxVenues venues, or a page on
\* which line 76 raises
MainIndexPages ==
  {[i \in 1..n |-> VenueTbody(VenueCodes[i], VenueNames[i])] :
     n \in 0..(IF MaxVenues < Len(VenueCodes) THEN MaxVenues
                ELSE Len(VenueCodes))}
  \cup {<<NoCodeTbody>>}

\* the venue pages of a run of main: up to MaxRaces race links "1R", "2R"
MainRacePages == SeqsUpTo({<<"1", "R">>, <<"2", "R">>}, MaxRaces)

Div(marker_text, rows) == [marker_text |-> marker_text, rows |-> rows]
Page(is_payout, table1) == [is_payout |-> is_payout, table1 |-> table1]

\* the scenario of the specification: one single-win row ("1", "230")
ScenarioRow == << <<"tansho">>, <<"1">>, <<"2", "3", "0">> >>

\* the race-result pages of a run of main: no section at all, a section that
\* yields no payout, the scenario row in the is-payout section or in a
\* fallback section
MainResultPages ==
  { Page(None, <<>>),
    Page(None, <<Div(FALSE, <<ScenarioRow>>)>>),
    Page(None, <<Div(FALSE, <<>>), Div(TRUE, <<>>)>>),
    Page(None, <<Div(FALSE, << << <<"nirenpuku">>, <<"1-2">>, <<"5">> >> >>)>>),
    Page(Div(FALSE, <<>>), <<>>),
    Page(Div(FALSE, << << <<"ninki">>, <<"1">>, <<"1">> >>,
                       << <<"tansho">>, <<"1">> >> >>), <<>>),
    Page(Div(FALSE, <<ScenarioRow>>), <<>>) }

\* how a call of get_race_result may go (lines 25-55)
ExtractResponses == Failures \cup {"parse_error", Ok}

\* the pages an exchange may deliver: one of `pages` when it succeeds, nothing
\* that is read when it fails
Delivered(response, pages) == IF response = Ok THEN pages ELSE {<<>>}

-----------------------------------------------------------------------------
(* main: lines 93-137 *)

\* line 123: `if res:` - None is false, a dict with keys is true
Truthy(r) == r # None

\* line 124: res.update(place)
Update(r, place) ==
  [race_num |-> r.race_num, payouts |-> r.payouts, date |-> place.date,
   place_code |-> place.place_code, place_name |-> place.place_name]

\* lines 126-129: the abort flag after a call of get_race_result
SkipAfter(rn, r, skip) == IF ~Truthy(r) /\ rn = One THEN TRUE ELSE skip

\* variant of ShouldSkip: the flag is never read
ShouldSkip_Never(skip) == FALSE

\* line 117: if skip_remaining
ShouldSkip(skip) == skip

\* variant of SleepDue: the sleep indented into the `if res` branch
SleepDue_OnlyOnSuccess(r) == Truthy(r)

\* line 130: time.sleep(1) is a statement of the loop body, outside the if/else
SleepDue(r) == TRUE

\* variant of ShouldWrite: the file is written whatever was collected
ShouldWrite_Always(results) == TRUE

\* line 132: if all_results
ShouldWrite(results) == results # <<>>

\* the end of the `for place` loop: line 108, then line 132
AfterPlace ==
  /\ pi' = pi + 1
  /\ pc' = IF pi + 1 > Len(places) THEN "Serialize" ELSE "ListRaces"

\* the end of an iteration of `for rn`: line 116, then line 108
AfterRace ==
  IF ri + 1 > Len(nums)
  THEN ri' = ri + 1 /\ AfterPlace
  ELSE ri' = ri + 1 /\ pc' = "RaceLoop" /\ pi' = pi

\* lines 103-106
ListVenues ==
  /\ pc = "ListVenues"
  /\ \E response \in Failures \cup {Ok} :
     \E page \in Delivered(response, MainIndexPages) :
       LET r == get_race_list_for_date(TargetDate, response, page)
       IN /\ net' = [endpoint |-> "index", response |-> response]
          /\ IF r = Raised
             THEN pc' = "Crashed" /\ UNCHANGED <<places, pi>>
             ELSE IF r.items = <<>>
             THEN pc' = "Done" /\ UNCHANGED <<places, pi>>
             ELSE places' = r.items /\ pi' = 1 /\ pc' = "ListRaces"
  /\ UNCHANGED <<nums, ri, skip_remaining, res, all_results, output_file,
                 outcomes, n_extract, n_sleep, n_write, exc_seen, aborted, arg, ret>>

\* variant of ResetSkip: the flag is created once, before the venue loop
ResetSkip_KeepFlag(skip) == skip

\* line 115: skip_remaining = False
ResetSkip(skip) == FALSE

\* lines 108-115
ListRaces ==
  /\ pc = "ListRaces"
  /\ \E response \in Failures \cup {Ok} :
     \E page \in Delivered(response, MainRacePages) :
       LET r == get_races_for_place(response, page)
       IN /\ net' = [endpoint |-> "raceindex", response |-> response]
          /\ IF r = Raised
             THEN /\ pc' = "Crashed"
                  /\ UNCHANGED <<pi, nums, ri, skip_remaining, outcomes>>
             ELSE IF r.items = <<>>
             THEN /\ AfterPlace
                  /\ nums' = r.items
                  /\ outcomes' = <<>>
                  /\ UNCHANGED <<ri, skip_remaining>>
             ELSE /\ nums' = r.items
                  /\ skip_remaining' = ResetSkip(skip_remaining)
                  /\ ri' = 1
                  /\ outcomes' = <<>>
                  /\ pc' = "RaceLoop"
                  /\ pi' = pi
  /\ UNCHANGED <<places, res, all_results, output_file, n_extract, n_sleep,
                 n_write, exc_seen, aborted, arg, ret>>

\* lines 117-119
SkipRace ==
  /\ pc = "RaceLoop"
  /\ ShouldSkip(skip_remaining)
  /\ outcomes' = Append(outcomes, "skipped")
  /\ AfterRace
  /\ UNCHANGED <<places, nums, skip_remaining, res, all_results, output_file,
                 net, n_extract, n_sleep, n_write, exc_seen, aborted, arg, ret>>

\* lines 121-129, and line 130 when no sleep is due
FetchResult ==
  /\ pc = "RaceLoop"
  /\ ~ShouldSkip(skip_remaining)
  /\ \E response \in ExtractResponses :
     \E page \in Delivered(response, MainResultPages) :
       LET rn == nums[ri]
           r == get_race_result(rn, response, page)
       IN /\ net' = [endpoint |-> "raceresult", response |-> response]
          /\ n_extract' = n_extract + 1
          /\ exc_seen' = (exc_seen \/ response # Ok)
          /\ IF r = Raised
             THEN /\ pc' = "Crashed"
                  /\ UNCHANGED <<pi, ri, res, all_results, skip_remaining,
                                 outcomes, aborted>>
             ELSE /\ res' = IF Truthy(r) THEN Update(r, places[pi]) ELSE r
                  /\ all_results' =
                       IF Truthy(r) THEN Append(all_results, Update(r, places[pi]))
                       ELSE all_results
                  /\ skip_remaining' = SkipAfter(rn, r, skip_remaining)
                  /\ aborted' = IF SkipAfter(rn, r, skip_remaining)
                                THEN aborted \cup {pi} ELSE aborted
                  /\ outcomes' =
                       Append(outcomes, IF Truthy(r) THEN "found" ELSE "not_found")
                  /\ IF SleepDue(r)
                     THEN pc' = "Sleep" /\ UNCHANGED <<pi, ri>>
                     ELSE AfterRace
  /\ UNCHANGED <<places, nums, output_file, n_sleep, n_write, arg, ret>>

\* line 130
Sleep ==
  /\ pc = "Sleep"
  /\ n_sleep' = n_sleep + 1
  /\ AfterRace
  /\ UNCHANGED <<places, nums, skip_remaining, res, all_results, output_file,
                 net, outcomes, n_extract, n_write, exc_seen, aborted, arg, ret>>

\* lines 132-137
Serialize ==
  /\ pc = "Serialize"
  /\ IF ShouldWrite(all_results)
     THEN /\ output_file' = [file |-> "json", content |-> all_results]
          /\ n_write' = n_write + 1
     ELSE UNCHANGED <<output_file, n_write>>
  /\ pc' = "Done"
  /\ UNCHANGED <<places, pi, nums, ri, skip_remaining, res, all_results, net,
                 outcomes, n_extract, n_sleep, exc_seen, aborted, arg, ret>>

NoCall == [fn |-> "none"]

\* main is entered: lines 100-101 have run, nothing is fetched yet
Init ==
  /\ pc = "ListVenues"
  /\ places = <<>>
  /\ pi = 0
  /\ nums = <<>>
  /\ ri = 0
  /\ skip_remaining = FALSE
  /\ res = None
  /\ all_results = <<>>
  /\ output_file = Absent
  /\ net = [endpoint |-> "none", response |-> Ok]
  /\ outcomes = <<>>
  /\ n_extract = 0
  /\ n_sleep = 0
  /\ n_write = 0
  /\ exc_seen = FALSE
  /\ aborted = {}
  /\ arg = NoCall
  /\ ret = None

Next ==
  \/ ListVenues
  \/ ListRaces
  \/ SkipRace
  \/ FetchResult
  \/ Sleep
  \/ Serialize

Spec == Init /\ [][Next]_vars

-----------------------------------------------------------------------------
(* get_race_result run on its own, on enumerated pages *)

AllLabels == RecognizedBetTypes \cup {<<"ninki">>, <<>>, <<"tansho", "x">>}

\* the texts of a payout cell: every text of up to MaxLen characters among a
\* digit, the thousands separator and the yen sign, and the scenario's "10,230"
PayoutTexts ==
  SeqsUpTo({"1", ",", "Y"}, MaxLen) \cup {<<"1", "0", ",", "2", "3", "0">>}

\* pages whose is-payout section has one row of three cells
OneRowPages ==
  {Page(Div(FALSE, << <<label, <<"1-2">>, text>> >>), <<>>) :
     label \in AllLabels, text \in PayoutTexts}

\* the rows of the pages of several rows: three and four cells, fewer than three
SomeRows ==
  {<<label, combo, text>> :
     label \in {<<"tansho">>, <<"fukusho">>, <<"ninki">>},
     combo \in {<<"1">>, <<"2">>},
     text \in {<<"1", ",", "2", "3", "0">>}}
  \cup { <<>>, << <<"tansho">> >>, << <<"tansho">>, <<"1">> >>,
         << <<"fukusho">>, <<"2">>, <<"1", "1", "0">>, <<"3">> >> }

RowSeqs == SeqsUpTo(SomeRows, MaxRows)

\* pages of up to MaxRows rows: in the is-payout section, in a generic table1
\* section (with a marker outside its cells or not), after another section
ManyRowPages ==
  {Page(Div(FALSE, rows), <<>>) : rows \in RowSeqs}
  \cup {Page(None, <<Div(m, rows)>>) : m \in BOOLEAN, rows \in RowSeqs}
  \cup {Page(None, <<Div(FALSE, <<>>), Div(FALSE, rows)>>) : rows \in RowSeqs}

ExtractCall(race_num, response, page) ==
  [fn |-> "get_race_result", race_num |-> race_num, response |-> response,
   page |-> page]

ExtractInputs ==
  {ExtractCall(One, Ok, page) : page \in OneRowPages \cup ManyRowPages}
  \cup {ExtractCall(One, response, Page(Div(FALSE, <<ScenarioRow>>), <<>>)) :
          response \in ExtractResponses}

InitExtract ==
  /\ pc = "call_get_race_result"
  /\ arg \in ExtractInputs
  /\ ret = None
  /\ places = <<>> /\ pi = 0 /\ nums = <<>> /\ ri = 0
  /\ skip_remaining = FALSE /\ res = None /\ all_results = <<>>
  /\ output_file = Absent /\ net = [endpoint |-> "none", response |-> Ok]
  /\ outcomes = <<>> /\ n_extract = 0 /\ n_sleep = 0 /\ n_write = 0
  /\ exc_seen = FALSE /\ aborted = {}

\* one call of get_race_result, lines 22-59
CallGetRaceResult ==
  /\ pc = "call_get_race_result"
  /\ ret' = get_race_result(arg.race_num, arg.response, arg.page)
  /\ net' = [endpoint |-> "raceresult", response |-> arg.response]
  /\ pc' = "returned"
  /\ UNCHANGED <<places, pi, nums, ri, skip_remaining, res, all_results,
                 output_file, outcomes, n_extract, n_sleep, n_write, exc_seen,
                 aborted, arg>>

NextExtract == CallGetRaceResult

SpecExtract == InitExtract /\ [][NextExtract]_vars

-----------------------------------------------------------------------------
(* get_race_list_for_date run on its own, on enumerated pages *)

Hrefs ==
  { <<"raceindex", "?", "jcd=", "02", "&", "hd=">>,
    <<"raceindex", "?", "hd=", "&", "jcd=", "04">>,
    <<"raceindex", "?", "hd=">>,
    <<"racelist", "?", "jcd=", "02">> }

Link(text) == [href |-> [text |-> text]]
NoHrefLink == [href |-> None]

\* the links of a tbody: none, one, or a raceindex link after another link
LinkLists ==
  {<<>>, <<NoHrefLink>>} \cup {<<Link(h)>> : h \in Hrefs}
  \cup { <<Link(<<"racelist", "?", "jcd=", "02">>),
           Link(<<"raceindex", "?", "jcd=", "04", "&", "hd=">>)>>,
         <<NoHrefLink, Link(<<"raceindex", "?", "hd=">>)>> }

\* the first img of a tbody: none, one without alt, one with an alt text
Imgs ==
  {None, [attrs |-> [k \in {} |-> ""]], [attrs |-> [alt |-> "Toda"]]}

Tbodies == {[img |-> img, links |-> links] : img \in Imgs, links \in LinkLists}

ListerCall(response, page) ==
  [fn |-> "get_race_list_for_date", response |-> response, page |-> page]

ListerInputs ==
  {ListerCall(Ok, page) : page \in SeqsUpTo(Tbodies, MaxTbodies)}
  \cup {ListerCall(response, <<>>) : response \in Failures}

InitLister ==
  /\ pc = "call_get_race_list_for_date"
  /\ arg \in ListerInputs
  /\ ret = None
  /\ places = <<>> /\ pi = 0 /\ nums = <<>> /\ ri = 0
  /\ skip_remaining = FALSE /\ res = None /\ all_results = <<>>
  /\ output_file = Absent /\ net = [endpoint |-> "none", response |-> Ok]
  /\ outcomes = <<>> /\ n_extract = 0 /\ n_sleep = 0 /\ n_write = 0
  /\ exc_seen = FALSE /\ aborted = {}

\* one call of get_race_list_for_date, lines 65-78
CallGetRaceListForDate ==
  /\ pc = "call_get_race_list_for_date"
  /\ ret' = get_race_list_for_date(TargetDate, arg.response, arg.page)
  /\ net' = [endpoint |-> "index", response |-> arg.response]
  /\ pc' = "returned"
  /\ UNCHANGED <<places, pi, nums, ri, skip_remaining, res, all_results,
                 output_file, outcomes, n_extract, n_sleep, n_write, exc_seen,
                 aborted, arg>>

NextLister == CallGetRaceListForDate

SpecLister == InitLister /\ [][NextLister]_vars

-----------------------------------------------------------------------------
(* Properties of main, checked under Spec *)

\* the races of the current venue that main has decided on so far
Decided == 1..Len(outcomes)
Fetched == {i \in Decided : outcomes[i] # "skipped"}
\* race "1" of the current venue was fetched and returned not-found
FailedOne(i) == nums[i] = One /\ outcomes[i] = "not_found"

\* C1: once get_race_result has returned not-found for race "1" of a venue, no
\* later race of that venue's list is fetched: every later race is skipped, and
\* the requests issued for the venue are those for the races up to and
\* including that race "1".
C1_NoFetchAfterFailedRaceOne ==
  /\ Len(outcomes) <= Len(nums)
  /\ \A i \in Decided :
       FailedOne(i) =>
         /\ \A j \in Decided : j > i => outcomes[j] = "skipped"
         /\ Fetched = 1..i

C1_Witness ==
  /\ \E i \in Decided : FailedOne(i) /\ Len(outcomes) > i
  /\ pc = "Done"

\* C2: inside the race loop of a venue (from line 115, where the venue's flag
\* is created, on) the abort flag is set exactly when race "1" of that venue
\* was fetched and returned not-found; a race is skipped only after that, so a
\* not-found on another race number leaves the next race to be fetched.
C2_FlagIffRaceOneFailed ==
  /\ pc \in {"RaceLoop", "Sleep"} =>
       (skip_remaining <=> \E i \in Decided : FailedOne(i))
  /\ \A j \in Decided :
       outcomes[j] = "skipped" => \E i \in Decided : i < j /\ FailedOne(i)

C2_Witness ==
  /\ pc = "Sleep"
  /\ pi = 2
  /\ 1 \in aborted
  /\ Len(outcomes) = 2
  /\ outcomes[1] = "not_found" /\ nums[1] # One
  /\ ~skip_remaining

RunEnded == pc \in {"Done", "Crashed"}

\* C3 as stated: the file is written at most once, only as the last step, and
\* it is written if and only if at least one record was accumulated; with zero
\* venues nothing is requested and nothing written.
C3_Original ==
  /\ n_write <= 1
  /\ n_write = 1 => pc = "Done"
  /\ RunEnded => (n_write = 1 <=> all_results # <<>>)
  /\ (pc = "Done" /\ places = <<>>) =>
       n_extract = 0 /\ net.endpoint = "index" /\ n_write = 0

\* C3, amended: the file is written at most once, only as the last step, and a
\* run that reaches that step writes it if and only if at least one record
\* was accumulated (with content the accumulation list); a run ended by an
\* exception writes nothing; with zero venues nothing is requested after the
\* index page and nothing written.
C3_WrittenOnceAtEndIffRecords ==
  /\ n_write <= 1
  /\ n_write = 1 => (pc = "Done" /\ output_file.content = all_results)
  /\ n_write = 0 => output_file = Absent
  /\ pc = "Done" => (n_write = 1 <=> all_results # <<>>)
  /\ pc = "Crashed" => n_write = 0
  /\ (pc = "Done" /\ places = <<>>) =>
       n_extract = 0 /\ net.endpoint = "index" /\ n_write = 0

C3_Witness ==
  /\ pc = "Done"
  /\ n_write = 1
  /\ Len(output_file.content) = 2
  /\ pi = 3

\* C4: every record of the accumulation list, the value get_race_result last
\* returned when it is a record, and every record of the output file have a
\* non-empty payouts mapping.
C4_PayoutsNonEmpty ==
  /\ \A i \in 1..Len(all_results) : DOMAIN all_results[i].payouts # {}
  /\ res # None => DOMAIN res.payouts # {}
  /\ n_write > 0 =>
       \A i \in 1..Len(output_file.content) :
         DOMAIN output_file.content[i].payouts # {}

C4_Witness ==
  /\ n_write = 1
  /\ \E i \in Decided : outcomes[i] = "not_found"
  /\ \E i \in Decided : outcomes[i] = "found"
  /\ net.response = Ok

ExtractorFailed == net.endpoint = "raceresult" /\ net.response # Ok

\* C5 as stated: a failure inside get_race_result yields not-found, no
\* exception reaches main, and a run in which that happened still reaches the
\* serialize step.
C5_Original ==
  /\ (ExtractorFailed /\ pc = "Sleep") => res = None
  /\ ExtractorFailed => pc # "Crashed"
  /\ (exc_seen /\ RunEnded) => pc = "Done"

\* C5, amended: a failure inside get_race_result yields not-found and no
\* exception reaches main: main goes on to the wait and then to the next race
\* or venue, and the run can end only at the serialize step or by an exception
\* that escapes the Venue Lister or the Race Enumerator.
C5_ExtractorNeverRaises ==
  /\ ExtractorFailed =>
       /\ pc # "Crashed"
       /\ pc = "Sleep" =>
            res = None /\ outcomes[Len(outcomes)] = "not_found"
  /\ pc = "Crashed" => net.endpoint \in {"index", "raceindex"}
  /\ ~RunEnded => ENABLED Next

C5_Witness ==
  /\ exc_seen
  /\ pc = "Done"
  /\ n_write = 1
  /\ net.response = "parse_error"

ListingFailed ==
  net.endpoint \in {"index", "raceindex"} /\ net.response \in Failures

\* C6: a transport failure of the Venue Lister or of the Race Enumerator ends
\* the run there: nothing further happens and no output file exists, whatever
\* was accumulated before.
C6_ListingFailureIsFatal ==
  ListingFailed =>
    /\ pc = "Crashed"
    /\ n_write = 0
    /\ output_file = Absent
    /\ ~ENABLED Next

C6_Witness ==
  /\ ListingFailed
  /\ net.endpoint = "raceindex"
  /\ pi = 2
  /\ all_results # <<>>

\* C7: each call of get_race_result is followed by one wait before anything
\* else happens: the calls exceed the waits by one exactly while main is at
\* the wait, so wherever a request can be issued, and when the run has ended,
\* the waits equal the calls; a skipped race adds neither.
C7_OneWaitPerCall ==
  /\ pc = "Sleep" => n_extract = n_sleep + 1
  /\ pc # "Sleep" => n_extract = n_sleep
  /\ n_extract >= Cardinality(Fetched)

C7_Witness ==
  /\ pc = "Done"
  /\ n_sleep = 3
  /\ \E i \in Decided : outcomes[i] = "skipped"

-----------------------------------------------------------------------------
(* Properties of get_race_result, checked under SpecExtract *)

\* the seven bet types the specification names
SevenBetTypes ==
  {<<"tansho">>, <<"fukusho">>, <<"nirentan">>, <<"nirenpuku">>,
   <<"sanrentan">>, <<"sanrenpuku">>, <<"kakurenpuku">>}

\* the rows of the payout section of the page, in document order
SectionRows ==
  LET section == FindSection(arg.page)
  IN IF section = None THEN <<>> ELSE section.rows

\* the rows of at least three cells whose first cell is the label
RowsOf(label) ==
  SelectSeq(SectionRows, LAMBDA row : Len(row) >= 3 /\ row[1] = label)

Returned == pc = "returned" /\ arg.response = Ok

\* C8: the keys of the returned mapping are the recognized labels that some row
\* of at least three cells carries, and the entries under a key are those
\* rows, one entry each, in document order; no other row leaves a trace, and
\* not-found is returned when there is no such row.
C8_OnlyRecognizedRowsInOrder ==
  Returned =>
    IF ret = None
    THEN \A label \in SevenBetTypes : RowsOf(label) = <<>>
    ELSE /\ DOMAIN ret.payouts =
              {label \in SevenBetTypes : RowsOf(label) # <<>>}
         /\ \A label \in DOMAIN ret.payouts :
              /\ Len(ret.payouts[label]) = Len(RowsOf(label))
              /\ \A i \in 1..Len(RowsOf(label)) :
                   ret.payouts[label][i].combination = RowsOf(label)[i][2]

C8_Witness ==
  /\ Returned
  /\ ret # None
  /\ Len(SectionRows) = 3
  /\ Len(SectionRows[1]) = 2
  /\ Len(SectionRows[2]) = 3
  /\ SectionRows[2][1] = <<"ninki">>
  /\ DOMAIN ret.payouts = {<<"fukusho">>}

Digits == {"0", "1", "2", "3", "4", "5", "6", "7", "8", "9"}
DigitsOnly(text) == \A i \in 1..Len(text) : text[i] \in Digits
WithoutCommas(text) == SelectSeq(text, LAMBDA c : c # ",")
TenThousand == <<"1", "0", ",", "2", "3", "0">>

\* the entries of the returned mapping, each with the third cell it came from
Stored ==
  IF Returned /\ ret # None
  THEN UNION {{[payout |-> ret.payouts[label][i].payout,
                cell |-> RowsOf(label)[i][3]] :
                 i \in 1..Len(ret.payouts[label])} :
              label \in DOMAIN ret.payouts}
  ELSE {}

\* C9 as stated: the stored payout is digits only, the third cell without its
\* thousands separators.
C9_Original ==
  \A e \in Stored : DigitsOnly(e.payout) /\ e.payout = WithoutCommas(e.cell)

\* C9, amended: the stored payout is the third cell's text with every ","
\* removed and nothing else changed ("10,230" is stored as "10230"); it is
\* digits only exactly when the cell holds nothing but digits and ",".
C9_PayoutIsCellWithoutCommas ==
  \A e \in Stored :
    /\ e.payout = WithoutCommas(e.cell)
    /\ DigitsOnly(e.payout) <=>
         \A i \in 1..Len(e.cell) : e.cell[i] \in Digits \cup {","}

C9_Witness ==
  \E e \in Stored :
    e.cell = TenThousand /\ e.payout = <<"1", "0", "2", "3", "0">>

-----------------------------------------------------------------------------
(* Properties of get_race_list_for_date, checked under SpecLister *)

\* the row carries both signals the specification names: an image with an
\* alternate text, and a navigation link whose href has the jcd parameter
CarriesBothSignals(tbody) ==
  /\ tbody.img # None
  /\ "alt" \in DOMAIN tbody.img.attrs
  /\ FindLink(tbody.links) # None
  /\ \E i \in 1..Len(FindLink(tbody.links).href.text) :
       FindLink(tbody.links).href.text[i] = "jcd="

\* the value of the jcd parameter of the row's navigation link
CodeOf(tbody) ==
  LET text == FindLink(tbody.links).href.text
      i == CHOOSE i \in 1..Len(text) : text[i] = "jcd="
  IN <<text[i + 1]>>

VenuesOf(page) ==
  LET rows == SelectSeq(page, CarriesBothSignals)
  IN [i \in 1..Len(rows) |->
        [date |-> TargetDate, place_code |-> CodeOf(rows[i]),
         place_name |-> rows[i].img.attrs["alt"]]]

\* C10: on every page the lister returns, without raising, one venue per row
\* that carries both signals, in document order; every other row is skipped.
C10_OneVenuePerQualifyingRow ==
  Returned => (ret # Raised /\ ret.items = VenuesOf(arg.page))

====
